---- MODULE Spec2Model ----
(***************************************************************************)
(* Model of tools/pdl/src/lint.rs: Scope::new, the registry build, the     *)
(* memoized depth-first resolver (Scope::finalize::bfs) and the            *)
(* PacketScope mutators insert, inherit, inline and finalize.              *)
(*                                                                         *)
(* A declaration is identified by its position in file.declarations (the   *)
(* code keys its maps by reference identity); a field by the pair          *)
(* <<declaration, position>>; a source location is such a pair, with       *)
(* position 0 for the declaration itself.                                  *)
(***************************************************************************)
EXTENDS Integers, Sequences, FiniteSets, TLC

VARIABLES
    file,         \* file.declarations, the parsed input (lint.rs:16)
    typedef,      \* Scope::typedef, identifier -> declaration (lint.rs:19)
    scopes,       \* Scope::scopes, declaration -> PacketScope (lint.rs:22)
    diagnostics,  \* LintDiagnostics::diagnostics (lint.rs:9)
    phase,        \* where Scope::new is: "build", "walk", "done" or "panic"
    next_decl,    \* the position of the loop over file.declarations (lint.rs:235)
    pending,      \* the values of typedef the loop at lint.rs:405 has yet to yield
    visited,      \* Context::visited (lint.rs:271)
    ctx_scopes,   \* Context::scopes (lint.rs:272)
    list,         \* Context::list (lint.rs:270)
    stack,        \* the activations of bfs, the innermost last, each with its lscope
    ret,          \* the value the last finished bfs returned: a cached scope or none
    result,       \* the value Scope::new returned
    calls         \* history: the scopes built and the inline and inherit calls made

vars == <<file, typedef, scopes, diagnostics, phase, next_decl, pending,
          visited, ctx_scopes, list, stack, ret, result, calls>>

(***************************************************************************)
(* Bounds of the checked inputs.                                           *)
(***************************************************************************)
MaxDecls == 3
MaxFields == 2

None == "None"
NoLoc == <<0, 0>>
NoDecl == 0

(***************************************************************************)
(* HashMap<String, _> as a function with a finite domain.                  *)
(***************************************************************************)
EmptyMap == [k \in {} |-> NoLoc]

MapInsert(m, k, v) == [x \in (DOMAIN m) \cup {k} |-> IF x = k THEN v ELSE m[x]]

MapGet(m, k, dflt) == IF k \in DOMAIN m THEN m[k] ELSE dflt

MapValues(m) == {m[k] : k \in DOMAIN m}

\* Every order in which a hash map may yield the keys of S.
RECURSIVE IterOrders(_)
IterOrders(S) ==
    IF S = {} THEN {<<>>}
    ELSE UNION {{<<k>> \o rest : rest \in IterOrders(S \ {k})} : k \in S}

(***************************************************************************)
(* The AST as the linter reads it.                                         *)
(***************************************************************************)
Decls == 1..Len(file)

DeclLoc(d) == <<d, 0>>

IsComposite(d) == file[d].kind \in {"packet", "struct", "group"}

FieldsOf(d) == IF IsComposite(d) THEN file[d].fields ELSE <<>>

FieldDesc(f) == file[f[1]].fields[f[2]]

FieldId(f) == FieldDesc(f).id

\* decl.constraints(): the constraint list of a Packet or Struct.
DeclConstraints(d) ==
    IF file[d].kind \in {"packet", "struct"}
    THEN [i \in 1..Len(file[d].constraints) |->
             [id |-> file[d].constraints[i], at |-> <<d, 0, i>>]]
    ELSE <<>>

\* The constraint list attached to the group field f.
FieldConstraints(f) ==
    [i \in 1..Len(FieldDesc(f).constraints) |->
        [id |-> FieldDesc(f).constraints[i], at |-> <<f[1], f[2], i>>]]

(***************************************************************************)
(* Diagnostics.                                                            *)
(***************************************************************************)
Diag(sev, msg, id, loc, prev) ==
    [severity |-> sev, message |-> msg, id |-> id, primary |-> loc, secondary |-> prev]

err_redeclared(id, loc, prev) == Diag("error", "redeclaration", id, loc, prev)

err_redeclared_by_group(id, loc, prev) ==
    Diag("error", "inserted group redeclares field", id, loc, prev)

(***************************************************************************)
(* PacketScope.                                                            *)
(***************************************************************************)
EmptyScope ==
    [named |-> EmptyMap, fields |-> <<>>, constraints |-> EmptyMap,
     all_fields |-> EmptyMap, all_constraints |-> EmptyMap]

RECURSIVE InsertAll(_, _, _)
InsertAll(named, d, i) ==
    IF i > Len(file[d].fields) THEN named
    ELSE InsertAll(IF FieldId(<<d, i>>) = None THEN named
                   ELSE MapInsert(named, FieldId(<<d, i>>), <<d, i>>),
                   d, i + 1)

decl_scopeConstrained(d) ==
    [EmptyScope EXCEPT
        !.named = InsertAll(EmptyMap, d, 1),
        !.all_constraints =
            [id \in {DeclConstraints(d)[i].id : i \in 1..Len(DeclConstraints(d))} |->
                CHOOSE c \in {DeclConstraints(d)[i] : i \in 1..Len(DeclConstraints(d))} :
                    c.id = id]]

decl_scope(d) == [EmptyScope EXCEPT !.named = InsertAll(EmptyMap, d, 1)]

RECURSIVE InsertConstraints(_, _, _)
InsertConstraints(m, cs, i) ==
    IF i > Len(cs) THEN m
    ELSE InsertConstraints(MapInsert(m, cs[i].id, cs[i]), cs, i + 1)

MapMerge(base, over) ==
    [k \in (DOMAIN base) \cup (DOMAIN over) |->
        IF k \in DOMAIN over THEN over[k] ELSE base[k]]

inheritWithoutFields(self, parent, constraints) ==
    [self EXCEPT
        !.all_constraints =
            MapMerge(InsertConstraints(parent.all_constraints, constraints, 1),
                     self.constraints)]

inherit(self, parent, constraints) ==
    [self EXCEPT
        !.all_constraints =
            MapMerge(InsertConstraints(parent.all_constraints, constraints, 1),
                     self.constraints),
        !.all_fields = parent.all_fields]

NoInlineCollisions(self, packet_scope) == {}

\* The keys of the group's `named` for which self.named.insert returns Some(prev).
InlineCollisions(self, packet_scope) == (DOMAIN packet_scope.named) \cap (DOMAIN self.named)

InlineDiags(self, packet_scope, group, order) ==
    [j \in 1..Len(order) |->
        err_redeclared_by_group(order[j], group, self.named[order[j]])]

inlineInFront(self, packet_scope, constraints) ==
    [self EXCEPT
        !.named = MapMerge(self.named, packet_scope.named),
        !.fields = packet_scope.fields \o self.fields,
        !.constraints =
            InsertConstraints(MapMerge(self.constraints, packet_scope.constraints),
                              constraints, 1)]

inline(self, packet_scope, constraints) ==
    [self EXCEPT
        !.named = MapMerge(self.named, packet_scope.named),
        !.fields = self.fields \o packet_scope.fields,
        !.constraints =
            InsertConstraints(MapMerge(self.constraints, packet_scope.constraints),
                              constraints, 1)]

\* PacketScope::finalize as a fold over fields: <<all_fields, warnings>>.
RECURSIVE FinalizeFrom(_, _, _, _)
FinalizeFrom(fields, i, all_fields, warnings) ==
    IF i > Len(fields) THEN <<all_fields, warnings>>
    ELSE LET f == fields[i]
             id == FieldId(f)
         IN  IF id = None THEN FinalizeFrom(fields, i + 1, all_fields, warnings)
             ELSE FinalizeFrom(fields, i + 1, MapInsert(all_fields, id, f),
                      IF id \in DOMAIN all_fields
                      THEN Append(warnings,
                               Diag("warning", "shadows parent field", id, f, all_fields[id]))
                      ELSE warnings)

finalize(self) == FinalizeFrom(self.fields, 1, self.all_fields, <<>>)

(***************************************************************************)
(* The parsed files the linter is run on.                                  *)
(***************************************************************************)
Scalar(id) == [kind |-> "scalar", id |-> id, ref |-> None, constraints |-> <<>>]

Typedef(id, type_id) == [kind |-> "typedef", id |-> id, ref |-> type_id, constraints |-> <<>>]

Group(group_id, cs) == [kind |-> "group", id |-> None, ref |-> group_id, constraints |-> cs]

SeqsUpTo(S, n) == UNION {[1..k -> S] : k \in 0..n}

\* Declarations of the given kinds, with bodies drawn from the given sets; a
\* Group has no parent and no constraint list, the other kinds no body at all.
DeclSet(kinds, ids, parents, fieldLists, consLists) ==
    {[kind |-> k, id |-> id, parent_id |-> p, fields |-> fl, constraints |-> cl] :
        k \in kinds \cap {"packet", "struct"}, id \in ids, p \in parents,
        fl \in fieldLists, cl \in consLists}
    \cup
    {[kind |-> "group", id |-> id, parent_id |-> None, fields |-> fl, constraints |-> <<>>] :
        id \in ids, fl \in IF "group" \in kinds THEN fieldLists ELSE {}}
    \cup
    {[kind |-> "enum", id |-> id, parent_id |-> None, fields |-> <<>>, constraints |-> <<>>] :
        id \in IF "enum" \in kinds THEN ids ELSE {}}
    \cup
    {[kind |-> "test", id |-> None, parent_id |-> None, fields |-> <<>>, constraints |-> <<>>] :
        id \in IF "test" \in kinds THEN {None} ELSE {}}

\* The empty body, and the bodies of one or of two fields drawn from S.
UpToTwo(S) == {<<>>} \cup {<<a>> : a \in S} \cup {<<a, b>> : a \in S, b \in S}

GroupRefs(ids) == {Group(g, <<>>) : g \in ids}

\* Up to MaxDecls declarations sharing two identifiers, some without identifier.
RegistryFiles ==
    UNION {[1..n -> DeclSet({"packet", "enum", "test"}, {"A", "B"}, {None, "A"},
                            {<<>>, <<Scalar("x")>>}, {<<>>})] : n \in 1..MaxDecls}

\* A declaration with up to MaxFields fields of every kind, and the declaration
\* they refer to; `C` is declared nowhere.
FieldFiles ==
    {<<a, b>> :
        a \in DeclSet({"packet", "group"}, {"A"}, {None, "B"},
                      SeqsUpTo({Scalar("x"), Scalar("y"), Typedef("z", "B"), Typedef("z", "C")}
                               \cup GroupRefs({"B"}), MaxFields), {<<>>}),
        b \in DeclSet({"struct", "group", "enum"}, {"B"}, {None},
                      UpToTwo({Scalar("x"), Typedef("z", "B")}), {<<>>})}

\* The graph of group inclusions over three declarations; `D` is declared nowhere.
GroupFiles ==
    {<<a, b, c>> :
        a \in DeclSet({"group"}, {"A"}, {None},
                      UpToTwo({Scalar("x")} \cup GroupRefs({"B", "C"})), {<<>>}),
        b \in DeclSet({"group"}, {"B"}, {None},
                      UpToTwo({Scalar("y")} \cup GroupRefs({"A", "B", "C"})), {<<>>}),
        c \in DeclSet({"group", "enum"}, {"C"}, {None},
                      UpToTwo({Scalar("x")} \cup GroupRefs({"B", "D"})), {<<>>})}

\* The graph of parents over three declarations.
ParentFiles ==
    {<<a, b, c>> :
        a \in DeclSet({"packet", "struct"}, {"A"}, {None, "A", "B", "C"},
                      {<<>>, <<Scalar("x")>>}, {<<>>}),
        b \in DeclSet({"packet", "struct"}, {"B"}, {None, "A", "B", "C"},
                      {<<>>, <<Scalar("x")>>}, {<<>>}),
        c \in DeclSet({"packet"}, {"C"}, {None, "A", "B", "C"},
                      {<<>>, <<Scalar("x")>>}, {<<>>})}

\* Parents, groups and struct-typed fields together.
MixedFiles ==
    {<<a, b, c>> :
        a \in DeclSet({"packet", "struct"}, {"A"}, {None, "B", "C"},
                      UpToTwo({Scalar("x"), Typedef("y", "B"), Group("C", <<>>)}), {<<>>}),
        b \in DeclSet({"packet", "struct", "enum"}, {"B"}, {None, "A"},
                      {<<>>, <<Scalar("x")>>, <<Typedef("y", "A")>>}, {<<>>}),
        c \in DeclSet({"group"}, {"C"}, {None},
                      {<<>>, <<Scalar("x")>>, <<Typedef("y", "B")>>,
                       <<Scalar("x"), Typedef("y", "B")>>}, {<<>>})}

\* The constraint lists of a declaration or of a group field.
ConstraintLists == {<<>>, <<"x">>, <<"y">>}

\* Constraints on a declaration, on its parent, on the groups it includes and
\* on the groups these include.
ConstraintFiles ==
    {<<a, b, c>> :
        a \in DeclSet({"packet"}, {"A"}, {None, "B"},
                      {<<>>} \cup {<<Group("C", cs)>> : cs \in ConstraintLists}
                             \cup {<<Group("C", cs), Scalar("x")>> : cs \in ConstraintLists}
                             \cup {<<Group("B", <<>>), Group("C", cs)>> : cs \in ConstraintLists},
                      ConstraintLists),
        b \in DeclSet({"packet", "group"}, {"B"}, {None},
                      {<<>>, <<Scalar("x")>>}, {<<>>, <<"x">>}),
        c \in DeclSet({"group"}, {"C"}, {None},
                      {<<Scalar("x")>>, <<Scalar("y")>>} \cup
                      {<<Group("B", cs)>> : cs \in ConstraintLists}, {<<>>})}

Files ==
    RegistryFiles \cup FieldFiles \cup GroupFiles \cup ParentFiles \cup MixedFiles
        \cup ConstraintFiles

(***************************************************************************)
(* Scope::new, first loop: the registry build.                             *)
(***************************************************************************)
Top == stack[Len(stack)]

Frame(d) == [decl |-> d, pc |-> "enter", i |-> 1, lscope |-> EmptyScope]

SetTop(fr) == [stack EXCEPT ![Len(stack)] = fr]

Pop == SubSeq(stack, 1, Len(stack) - 1)

\* typedef.insert(id, decl): the new declaration takes the identifier's entry.
RegistryInsert(m, id, d) == MapInsert(m, id, d)

RegisterDiagsOncePerId(diags, m, id, d) ==
    IF id \in DOMAIN m /\ \A k \in 1..Len(diags) : diags[k].id # id
    THEN Append(diags, err_redeclared(id, DeclLoc(d), DeclLoc(m[id])))
    ELSE diags

\* if let Some(prev) = typedef.insert(..) { err_redeclared(id, kind, loc, prev.loc) }
RegisterDiags(diags, m, id, d) ==
    IF id \in DOMAIN m
    THEN Append(diags, err_redeclared(id, DeclLoc(d), DeclLoc(m[id])))
    ELSE diags

Register ==
    /\ phase = "build"
    /\ next_decl <= Len(file)
    /\ LET d == next_decl
           id == file[d].id
       IN  /\ IF id # None
              THEN /\ typedef' = RegistryInsert(typedef, id, d)
                   /\ diagnostics' = RegisterDiags(diagnostics, typedef, id, d)
              ELSE UNCHANGED <<typedef, diagnostics>>
           /\ scopes' = IF IsComposite(d)
                        THEN [x \in (DOMAIN scopes) \cup {d} |->
                                 IF x = d THEN decl_scope(d) ELSE scopes[x]]
                        ELSE scopes
           /\ next_decl' = d + 1
    /\ UNCHANGED <<file, phase, pending, visited, ctx_scopes, list, stack, ret,
                   result, calls>>

\* Scope::finalize is entered: a fresh Context, and the values of typedef
\* still to be handed to bfs.
StartFinalize ==
    /\ phase = "build"
    /\ next_decl > Len(file)
    /\ phase' = "walk"
    /\ pending' = MapValues(typedef)
    /\ UNCHANGED <<file, typedef, scopes, diagnostics, next_decl, visited,
                   ctx_scopes, list, stack, ret, result, calls>>

\* for decl in self.typedef.values() { bfs(decl, ...) }, in hash-map order.
Visit ==
    /\ phase = "walk"
    /\ stack = <<>>
    /\ \E d \in pending :
          /\ pending' = pending \ {d}
          /\ stack' = <<Frame(d)>>
    /\ UNCHANGED <<file, typedef, scopes, diagnostics, phase, next_decl, visited,
                   ctx_scopes, list, ret, result, calls>>

(***************************************************************************)
(* bfs, one step of the topmost activation.                                *)
(***************************************************************************)
ReportRecursiveNever(diags, d) == diags

\* The Some(Mark::Temporary) arm: the back edge is reported.
ReportRecursive(diags, d) ==
    Append(diags, Diag("error", "recursive declaration", file[d].id, DeclLoc(d), NoLoc))

BfsEnter ==
    /\ phase = "walk"
    /\ stack # <<>>
    /\ Top.pc = "enter"
    /\ LET d == Top.decl
       IN  CASE visited[d] = "Permanent" ->
                  /\ stack' = Pop
                  /\ ret' = IF d \in DOMAIN ctx_scopes THEN d ELSE NoDecl
                  /\ UNCHANGED <<diagnostics, visited, calls>>
             [] visited[d] = "Temporary" ->
                  /\ diagnostics' = ReportRecursive(diagnostics, d)
                  /\ stack' = Pop
                  /\ ret' = NoDecl
                  /\ UNCHANGED <<visited, calls>>
             [] OTHER ->
                  IF IsComposite(d)
                  THEN /\ visited' = [visited EXCEPT ![d] = "Temporary"]
                       /\ stack' = SetTop([Top EXCEPT !.pc = "fields", !.i = 1,
                                                      !.lscope = decl_scope(d)])
                       /\ calls' = Append(calls, [op |-> "scope", self |-> d,
                                                  from |-> NoDecl, at |-> NoLoc])
                       /\ UNCHANGED <<diagnostics, ret>>
                  ELSE /\ stack' = Pop
                       /\ ret' = NoDecl
                       /\ UNCHANGED <<diagnostics, visited, calls>>
    /\ UNCHANGED <<file, typedef, scopes, phase, next_decl, pending, ctx_scopes,
                   list, result>>

FieldKeptScalarOnly(desc) == desc.kind = "scalar"

FieldKeptAlways(desc) == TRUE

\* The arms of `match &f.desc` that push f onto lscope.fields.
FieldKept(desc) == desc.kind # "group"

IsAnyComposite(d) == IsComposite(d)

\* The pattern Some(group_decl @ Decl { desc: DeclDesc::Group { .. }, .. }).
IsGroupDecl(d) == file[d].kind = "group"

\* One iteration of `for f in fields`.
BfsField ==
    /\ phase = "walk"
    /\ stack # <<>>
    /\ Top.pc = "fields"
    /\ Top.i <= Len(FieldsOf(Top.decl))
    /\ LET d == Top.decl
           f == <<d, Top.i>>
           desc == FieldDesc(f)
           target == MapGet(typedef, desc.ref, NoDecl)
           pushed == IF FieldKept(desc)
                     THEN [Top EXCEPT !.lscope.fields = Append(@, f)]
                     ELSE Top
       IN  CASE desc.kind = "group" ->
                  IF target = NoDecl
                  THEN /\ diagnostics' = Append(diagnostics,
                             Diag("error", "undeclared group identifier", desc.ref, f, NoLoc))
                       /\ stack' = SetTop([pushed EXCEPT !.i = @ + 1])
                  ELSE IF IsGroupDecl(target)
                  THEN /\ stack' = Append(SetTop([pushed EXCEPT !.pc = "inline"]), Frame(target))
                       /\ UNCHANGED diagnostics
                  ELSE /\ diagnostics' = Append(diagnostics,
                             Diag("error", "invalid group field identifier", desc.ref, f, NoLoc))
                       /\ stack' = SetTop([pushed EXCEPT !.i = @ + 1])
             [] desc.kind = "typedef" ->
                  IF target = NoDecl
                  THEN /\ diagnostics' = Append(diagnostics,
                             Diag("error", "undeclared typedef identifier", desc.ref, f, NoLoc))
                       /\ stack' = SetTop([pushed EXCEPT !.i = @ + 1])
                  ELSE IF file[target].kind = "struct"
                  THEN /\ stack' = Append(SetTop([pushed EXCEPT !.pc = "typedef"]), Frame(target))
                       /\ UNCHANGED diagnostics
                  ELSE /\ stack' = SetTop([pushed EXCEPT !.i = @ + 1])
                       /\ UNCHANGED diagnostics
             [] OTHER ->
                  /\ stack' = SetTop([pushed EXCEPT !.i = @ + 1])
                  /\ UNCHANGED diagnostics
    /\ UNCHANGED <<file, typedef, scopes, phase, next_decl, pending, visited,
                   ctx_scopes, list, ret, result, calls>>

ParentIdOf(d) == IF file[d].kind \in {"packet", "struct"} THEN file[d].parent_id ELSE None

\* The match on (&decl.desc, parent) after the field loop.
BfsParent ==
    /\ phase = "walk"
    /\ stack # <<>>
    /\ Top.pc = "fields"
    /\ Top.i > Len(FieldsOf(Top.decl))
    /\ LET d == Top.decl
           parent_id == ParentIdOf(d)
           parent == IF parent_id = None THEN NoDecl ELSE MapGet(typedef, parent_id, NoDecl)
           hint(msg) == Diag("error", msg, parent_id, DeclLoc(d), NoLoc)
       IN  IF parent = NoDecl
           THEN /\ diagnostics' = IF parent_id # None
                                  THEN Append(diagnostics, hint("undeclared parent identifier"))
                                  ELSE diagnostics
                /\ stack' = SetTop([Top EXCEPT !.pc = "finish"])
           ELSE IF \/ file[d].kind = "packet" /\ file[parent].kind = "struct"
                   \/ file[d].kind = "struct" /\ file[parent].kind = "packet"
           THEN /\ diagnostics' = Append(diagnostics, hint("invalid parent identifier"))
                /\ stack' = SetTop([Top EXCEPT !.pc = "finish"])
           ELSE /\ stack' = Append(SetTop([Top EXCEPT !.pc = "inherit"]), Frame(parent))
                /\ UNCHANGED diagnostics
    /\ UNCHANGED <<file, typedef, scopes, phase, next_decl, pending, visited,
                   ctx_scopes, list, ret, result, calls>>

\* A recursive bfs call has returned `ret` to the activation now on top.
BfsReturn ==
    /\ phase = "walk"
    /\ stack # <<>>
    /\ Top.pc \in {"inline", "typedef", "inherit"}
    /\ LET d == Top.decl
           f == <<d, Top.i>>
       IN  CASE Top.pc = "inline" ->
                  IF ret # NoDecl
                  THEN \E order \in IterOrders(InlineCollisions(Top.lscope, ctx_scopes[ret])) :
                         /\ diagnostics' = diagnostics \o
                               InlineDiags(Top.lscope, ctx_scopes[ret], f, order)
                         /\ stack' = SetTop([Top EXCEPT
                               !.lscope = inline(@, ctx_scopes[ret], FieldConstraints(f)),
                               !.pc = "fields", !.i = @ + 1])
                         /\ calls' = Append(calls, [op |-> "inline", self |-> d,
                                                    from |-> ret, at |-> f])
                         /\ UNCHANGED <<phase, result>>
                  ELSE /\ stack' = SetTop([Top EXCEPT !.pc = "fields", !.i = @ + 1])
                       /\ UNCHANGED <<diagnostics, calls, phase, result>>
             [] Top.pc = "typedef" ->
                  /\ stack' = SetTop([Top EXCEPT !.pc = "fields", !.i = @ + 1])
                  /\ UNCHANGED <<diagnostics, calls, phase, result>>
             [] OTHER ->
                  IF ret # NoDecl
                  THEN IF Top.lscope.all_constraints = EmptyMap
                       THEN /\ stack' = SetTop([Top EXCEPT
                                  !.lscope = inherit(@, ctx_scopes[ret], DeclConstraints(d)),
                                  !.pc = "finish"])
                            /\ calls' = Append(calls, [op |-> "inherit", self |-> d,
                                                       from |-> ret, at |-> NoLoc])
                            /\ UNCHANGED <<diagnostics, phase, result>>
                       ELSE \* assert!(self.all_constraints.is_empty()) fails
                            /\ phase' = "panic"
                            /\ result' = [kind |-> "Panic"]
                            /\ UNCHANGED <<diagnostics, stack, calls>>
                  ELSE /\ stack' = SetTop([Top EXCEPT !.pc = "finish"])
                       /\ UNCHANGED <<diagnostics, calls, phase, result>>
    /\ UNCHANGED <<file, typedef, scopes, next_decl, pending, visited,
                   ctx_scopes, list, ret>>

ListPushFront(l, d) == <<d>> \o l

\* context.list.push(decl)
ListPush(l, d) == Append(l, d)

MarkUnvisited(v, d) == [v EXCEPT ![d] = "Unvisited"]

MarkLeftTemporary(v, d) == v

\* context.visited.insert(decl, Mark::Permanent)
MarkPermanent(v, d) == [v EXCEPT ![d] = "Permanent"]

\* lscope.finalize, list.push, mark Permanent, cache the scope, return it.
BfsFinish ==
    /\ phase = "walk"
    /\ stack # <<>>
    /\ Top.pc = "finish"
    /\ LET d == Top.decl
           fin == finalize(Top.lscope)
           lscope == [Top.lscope EXCEPT !.all_fields = fin[1]]
       IN  /\ diagnostics' = diagnostics \o fin[2]
           /\ list' = ListPush(list, d)
           /\ visited' = MarkPermanent(visited, d)
           /\ ctx_scopes' = [x \in (DOMAIN ctx_scopes) \cup {d} |->
                                IF x = d THEN lscope ELSE ctx_scopes[x]]
           /\ stack' = Pop
           /\ ret' = d
    /\ UNCHANGED <<file, typedef, scopes, phase, next_decl, pending, result, calls>>

(***************************************************************************)
(* Scope::finalize returns; Scope::new decides between Ok and Err.         *)
(***************************************************************************)
IsFailureOnErrors(diags) == \E k \in 1..Len(diags) : diags[k].severity = "error"

\* !diagnostics.diagnostics.is_empty()
IsFailure(diags) == diags # <<>>

Return ==
    /\ phase = "walk"
    /\ stack = <<>>
    /\ pending = {}
    /\ scopes' = ctx_scopes
    /\ result' = IF IsFailure(diagnostics)
                 THEN [kind |-> "Err", diagnostics |-> diagnostics]
                 ELSE [kind |-> "Ok", typedef |-> typedef, scopes |-> ctx_scopes]
    /\ phase' = "done"
    /\ UNCHANGED <<file, typedef, diagnostics, next_decl, pending, visited,
                   ctx_scopes, list, stack, ret, calls>>

Next ==
    \/ Register
    \/ StartFinalize
    \/ Visit
    \/ BfsEnter
    \/ BfsField
    \/ BfsParent
    \/ BfsReturn
    \/ BfsFinish
    \/ Return

Init ==
    /\ file \in Files
    /\ typedef = EmptyMap
    /\ scopes = EmptyMap
    /\ diagnostics = <<>>
    /\ phase = "build"
    /\ next_decl = 1
    /\ pending = {}
    /\ visited = [d \in 1..Len(file) |-> "Unvisited"]
    /\ ctx_scopes = EmptyMap
    /\ list = <<>>
    /\ stack = <<>>
    /\ ret = NoDecl
    /\ result = [kind |-> "None"]
    /\ calls = <<>>

Spec == Init /\ [][Next]_vars

\* The files of the three graphs whose declarations have at most one field,
\* a reference.
LiveFiles ==
    {f \in GroupFiles \cup ParentFiles \cup MixedFiles :
        \A d \in 1..Len(f) :
            /\ Len(f[d].fields) <= 1
            /\ \A i \in 1..Len(f[d].fields) : f[d].fields[i].kind # "scalar"}

LiveInit == Init /\ file \in LiveFiles

\* The single-threaded pass always takes its next step.
LiveSpec == LiveInit /\ [][Next]_vars /\ WF_vars(Next)

(***************************************************************************)
(* Vocabulary of the properties.                                           *)
(***************************************************************************)
DiagIdx(msg) == {k \in 1..Len(diagnostics) : diagnostics[k].message = msg}

DiagsAt(msg, loc) == {k \in DiagIdx(msg) : diagnostics[k].primary = loc}

Occurrences(id) == {d \in Decls : file[d].id = id}

FirstOccurrence(id) == CHOOSE d \in Occurrences(id) : \A e \in Occurrences(id) : d <= e

Registered == {d \in MapValues(typedef) : IsComposite(d)}

GroupFieldsOf(d) == {i \in 1..Len(FieldsOf(d)) : file[d].fields[i].kind = "group"}

Resolve(id) == MapGet(typedef, id, NoDecl)

\* The fields, of one kind, of the declarations of the registry.
FieldRefs(kind) ==
    {f \in UNION {{<<d, i>> : i \in 1..Len(FieldsOf(d))} : d \in MapValues(typedef)} :
        FieldDesc(f).kind = kind}

GroupEdges ==
    {<<f[1], Resolve(FieldDesc(f).ref)>> :
        f \in {g \in FieldRefs("group") :
                  /\ Resolve(FieldDesc(g).ref) # NoDecl
                  /\ file[Resolve(FieldDesc(g).ref)].kind = "group"}}

StructEdges ==
    {<<f[1], Resolve(FieldDesc(f).ref)>> :
        f \in {g \in FieldRefs("typedef") :
                  /\ Resolve(FieldDesc(g).ref) # NoDecl
                  /\ file[Resolve(FieldDesc(g).ref)].kind = "struct"}}

\* Parent links between Packets and Structs, as declared.
DeclaredParentEdges ==
    {<<d, Resolve(file[d].parent_id)>> :
        d \in {e \in MapValues(typedef) :
                  /\ file[e].kind \in {"packet", "struct"}
                  /\ Resolve(file[e].parent_id) # NoDecl
                  /\ file[Resolve(file[e].parent_id)].kind \in {"packet", "struct"}}}

SameKindParentEdges == {e \in DeclaredParentEdges : file[e[1]].kind = file[e[2]].kind}

\* Parent links to a declaration that is neither Packet nor Struct.
OtherParentEdges ==
    {<<d, Resolve(file[d].parent_id)>> :
        d \in {e \in MapValues(typedef) :
                  /\ file[e].kind \in {"packet", "struct"}
                  /\ Resolve(file[e].parent_id) # NoDecl
                  /\ file[Resolve(file[e].parent_id)].kind \notin {"packet", "struct"}}}

RECURSIVE Closure(_, _)
Closure(R, n) ==
    IF n = 0 THEN R
    ELSE Closure(R \cup {p \in Decls \X Decls :
                            \E m \in Decls : <<p[1], m>> \in R /\ <<m, p[2]>> \in R},
                 n - 1)

HasCycle(R) == \E d \in Decls : <<d, d>> \in Closure(R, Len(file))

\* Every edge along which bfs calls itself.
Dependencies == GroupEdges \cup StructEdges \cup SameKindParentEdges \cup OtherParentEdges

(***************************************************************************)
(* C1. Scope::new is all-or-nothing: it returns Ok with the finalized      *)
(* registry and scopes exactly when no diagnostic of any severity was      *)
(* collected, and otherwise Err with the whole diagnostic list and no      *)
(* scope, also when every diagnostic is a warning.                         *)
(***************************************************************************)
AllOrNothing ==
    /\ phase = "done" =>
          /\ result.kind \in {"Ok", "Err"}
          /\ result.kind = "Ok" <=> diagnostics = <<>>
          /\ result.kind = "Ok" =>
                result = [kind |-> "Ok", typedef |-> typedef, scopes |-> ctx_scopes]
          /\ result.kind = "Err" =>
                result = [kind |-> "Err", diagnostics |-> diagnostics]
    /\ phase \in {"build", "walk"} => result.kind = "None"

WarningsOnlyFailure ==
    /\ phase = "done"
    /\ result.kind = "Err"
    /\ diagnostics # <<>>
    /\ \A k \in 1..Len(diagnostics) : diagnostics[k].message = "shadows parent field"

(***************************************************************************)
(* C3. No scope cached by the resolver has a group field in its flattened  *)
(* `fields`, whatever the group references of the input are.               *)
(***************************************************************************)
NoGroupFieldCached ==
    \A d \in DOMAIN ctx_scopes :
        \A j \in 1..Len(ctx_scopes[d].fields) :
            FieldDesc(ctx_scopes[d].fields[j]).kind # "group"

\* A cached scope whose declaration has one group field that was replaced by
\* the group's fields and one that was dropped.
GroupFieldsReplacedAndDropped ==
    \E d \in DOMAIN ctx_scopes :
        /\ \E i \in GroupFieldsOf(d) :
              \E k \in 1..Len(calls) :
                  /\ calls[k].op = "inline" /\ calls[k].at = <<d, i>>
                  /\ ctx_scopes[calls[k].from].fields # <<>>
        /\ \E i \in GroupFieldsOf(d) :
              \A k \in 1..Len(calls) : ~(calls[k].op = "inline" /\ calls[k].at = <<d, i>>)

(***************************************************************************)
(* C5. After the registry build every identifier of the registry is        *)
(* mapped to the first declaration, in source order, that carries it.      *)
(***************************************************************************)
FirstOccurrenceRetained ==
    phase # "build" => \A id \in DOMAIN typedef : typedef[id] = FirstOccurrence(id)

(***************************************************************************)
(* C6. The registry build never stops early: an identifier carried by k    *)
(* of the declarations processed so far has k-1 redeclaration errors, and  *)
(* when the build ends every declaration has been processed.               *)
(***************************************************************************)
Processed == 1..(next_decl - 1)

RedeclarationsOf(id) == {k \in DiagIdx("redeclaration") : diagnostics[k].id = id}

OneRedeclarationPerExtraOccurrence ==
    /\ \A d \in Processed :
          file[d].id # None =>
              Cardinality(RedeclarationsOf(file[d].id))
                  = Cardinality(Occurrences(file[d].id) \cap Processed) - 1
    /\ phase # "build" => Processed = Decls
    /\ phase = "walk" => DOMAIN scopes = {d \in Decls : IsComposite(d)}
    /\ Cardinality(DiagIdx("redeclaration"))
          = Cardinality({d \in Processed : file[d].id # None})
              - Cardinality({file[d].id : d \in Processed} \ {None})

\* An identifier declared three times: the declaration after the first
\* duplicate was processed and reported as well.
ThreeOccurrencesThenMore ==
    /\ phase # "build"
    /\ \E id \in DOMAIN typedef :
          /\ Cardinality(Occurrences(id)) >= 3
          /\ Cardinality(RedeclarationsOf(id)) = 2

(***************************************************************************)
(* C7. Every redeclaration error has the new occurrence as primary label   *)
(* and the first occurrence of the identifier as secondary label, however  *)
(* many times the identifier occurs.                                       *)
(***************************************************************************)
RedeclarationLabelsFirst ==
    \A k \in DiagIdx("redeclaration") :
        /\ diagnostics[k].primary[1] \in
              Occurrences(diagnostics[k].id) \ {FirstOccurrence(diagnostics[k].id)}
        /\ diagnostics[k].secondary = DeclLoc(FirstOccurrence(diagnostics[k].id))

(***************************************************************************)
(* C2. Whenever composite declarations form a cycle, a group including     *)
(* itself directly or through groups, or a Packet or Struct that is its    *)
(* own ancestor through parents of its own kind, the resolution ends and   *)
(* has reported at least one recursive declaration.                        *)
(***************************************************************************)
InclusionOrInheritanceCycle == HasCycle(GroupEdges) \/ HasCycle(SameKindParentEdges)

CycleIsReportedAndResolutionEnds ==
    (phase = "walk" /\ InclusionOrInheritanceCycle)
        ~> (phase = "done" /\ DiagIdx("recursive declaration") # {})

\* The claim as first stated: any loop of declared parents counts as a cycle.
DeclaredCycleIsReported ==
    (phase = "done" /\ (HasCycle(GroupEdges) \/ HasCycle(DeclaredParentEdges)))
        => DiagIdx("recursive declaration") # {}

\* A cycle through three groups was resolved.
ThreeGroupCycleResolved ==
    /\ phase = "done"
    /\ DiagIdx("recursive declaration") # {}
    /\ Cardinality({d \in Decls : <<d, d>> \in Closure(GroupEdges, Len(file))}) = 3

(***************************************************************************)
(* C4. On an input without dependency cycle whose group fields all name    *)
(* Groups, the `fields` of every cached scope is the recursive flattening  *)
(* of the declaration's field list, which is also the declaration's field  *)
(* list with each group field replaced by the finalized `fields` of its    *)
(* group; Group G{x}, Packet P{group G; y} gives [x, y] and no diagnostic. *)
(***************************************************************************)
RECURSIVE Flatten(_, _, _)
Flatten(d, i, fuel) ==
    IF i > Len(FieldsOf(d)) \/ fuel = 0 THEN <<>>
    ELSE (IF file[d].fields[i].kind = "group"
          THEN IF Resolve(file[d].fields[i].ref) = NoDecl THEN <<>>
               ELSE Flatten(Resolve(file[d].fields[i].ref), 1, fuel - 1)
          ELSE <<<<d, i>>>>) \o Flatten(d, i + 1, fuel)

RECURSIVE SubstituteCached(_, _)
SubstituteCached(d, i) ==
    IF i > Len(FieldsOf(d)) THEN <<>>
    ELSE (IF file[d].fields[i].kind = "group"
          THEN IF Resolve(file[d].fields[i].ref) \in DOMAIN ctx_scopes
               THEN ctx_scopes[Resolve(file[d].fields[i].ref)].fields
               ELSE <<>>
          ELSE <<<<d, i>>>>) \o SubstituteCached(d, i + 1)

GroupRefsResolve ==
    \A f \in FieldRefs("group") :
        Resolve(FieldDesc(f).ref) # NoDecl /\ file[Resolve(FieldDesc(f).ref)].kind = "group"

ScenarioGroupThenField ==
    <<[kind |-> "packet", id |-> "A", parent_id |-> None,
       fields |-> <<Group("B", <<>>), Scalar("y")>>, constraints |-> <<>>],
      [kind |-> "group", id |-> "B", parent_id |-> None,
       fields |-> <<Scalar("x")>>, constraints |-> <<>>]>>

FieldsAreTheFlattening ==
    /\ \A d \in DOMAIN ctx_scopes :
          \/ /\ ctx_scopes[d].fields = Flatten(d, 1, Len(file) + 1)
             /\ ctx_scopes[d].fields = SubstituteCached(d, 1)
          \/ ~GroupRefsResolve
          \/ HasCycle(Dependencies)
    /\ (phase = "done" /\ file = ScenarioGroupThenField) =>
          /\ ctx_scopes[1].fields = <<<<2, 1>>, <<1, 2>>>>
          /\ diagnostics = <<>>

\* A includes G after a field of its own, G includes H before a field of its own.
ThreeLevelInclusionFlattened ==
    /\ phase = "done"
    /\ ~HasCycle(Dependencies)
    /\ GroupRefsResolve
    /\ \E a, g, h \in DOMAIN ctx_scopes :
          /\ a # g /\ g # h /\ a # h
          /\ Len(FieldsOf(a)) = 2 /\ Len(FieldsOf(g)) = 2 /\ Len(FieldsOf(h)) > 0
          /\ file[a].fields[1].kind = "scalar"
          /\ file[a].fields[2].kind = "group" /\ Resolve(file[a].fields[2].ref) = g
          /\ file[g].fields[1].kind = "group" /\ Resolve(file[g].fields[1].ref) = h
          /\ file[g].fields[2].kind = "scalar"
          /\ Len(ctx_scopes[a].fields) = 2 + Len(ctx_scopes[h].fields)

(***************************************************************************)
(* C8. Two declarations of one kind, each the parent of the other and      *)
(* with no other reference: whichever is visited first, exactly one        *)
(* recursive declaration is reported, both end up Permanent with a cached  *)
(* scope, and the caller that re-entered the declaration on which the      *)
(* cycle was detected performs no inherit.                                 *)
(***************************************************************************)
MutualParents(a, b) ==
    /\ a # b
    /\ file[a].kind \in {"packet", "struct"}
    /\ file[a].kind = file[b].kind
    /\ Resolve(file[a].parent_id) = b
    /\ Resolve(file[b].parent_id) = a
    /\ \A d \in {a, b} : \A i \in 1..Len(file[d].fields) : file[d].fields[i].kind = "scalar"

InheritCallsOf(d) == {k \in 1..Len(calls) : calls[k].op = "inherit" /\ calls[k].self = d}

TwoCycleReportedOnce ==
    phase = "done" =>
        \A a, b \in Registered :
            MutualParents(a, b) =>
                /\ Cardinality(DiagsAt("recursive declaration", DeclLoc(a))
                               \cup DiagsAt("recursive declaration", DeclLoc(b))) = 1
                /\ visited[a] = "Permanent" /\ visited[b] = "Permanent"
                /\ {a, b} \subseteq DOMAIN ctx_scopes
                /\ DiagsAt("recursive declaration", DeclLoc(a)) # {} =>
                      /\ InheritCallsOf(b) = {}
                      /\ \A id \in DOMAIN ctx_scopes[b].all_fields :
                            ctx_scopes[b].all_fields[id][1] = b
                      /\ ctx_scopes[b].all_constraints = EmptyMap

\* The cycle was detected on the declaration that comes second in the file:
\* the walk started with it.
TwoCycleEnteredFromSecond ==
    /\ phase = "done"
    /\ \E a, b \in Registered :
          /\ MutualParents(a, b)
          /\ a < b
          /\ DiagsAt("recursive declaration", DeclLoc(b)) # {}
          /\ InheritCallsOf(b) # {}
          /\ file[a].fields # <<>>

(***************************************************************************)
(* C9. A local named field, declared once, of a declaration that          *)
(* inherited from its parent, whose identifier is in the parent's          *)
(* all_fields and on no other field of the declaration's flattened fields: *)
(* exactly one "shadows parent field" warning has the field as primary     *)
(* label, its secondary label is the inherited field, and no error about   *)
(* the field's identifier is labelled with the field.                      *)
(***************************************************************************)
DeclaredOnce(f) ==
    \A j \in 1..Len(file[f[1]].fields) :
        j # f[2] => file[f[1]].fields[j].id # FieldId(f)

ShadowingFields(d, p) ==
    {f \in {<<d, i>> : i \in 1..Len(file[d].fields)} :
        /\ FieldId(f) # None
        /\ DeclaredOnce(f)
        /\ FieldId(f) \in DOMAIN ctx_scopes[p].all_fields}

OnceInFlattenedFields(f) ==
    Cardinality({j \in 1..Len(ctx_scopes[f[1]].fields) :
                    FieldId(ctx_scopes[f[1]].fields[j]) = FieldId(f)}) = 1

ShadowWarning(f, inherited) ==
    /\ Cardinality(DiagsAt("shadows parent field", f)) = 1
    /\ \A w \in DiagsAt("shadows parent field", f) : diagnostics[w].secondary = inherited
    /\ \A e \in 1..Len(diagnostics) :
          (diagnostics[e].severity = "error" /\ diagnostics[e].id = FieldId(f)) =>
              diagnostics[e].primary # f /\ diagnostics[e].secondary # f

ShadowWarnedOnceWhenAlone ==
    phase = "done" =>
        \A k \in 1..Len(calls) :
            calls[k].op = "inherit" =>
                \A f \in ShadowingFields(calls[k].self, calls[k].from) :
                    OnceInFlattenedFields(f) =>
                        ShadowWarning(f, ctx_scopes[calls[k].from].all_fields[FieldId(f)])

\* The claim as first stated: whatever the groups inlined into the declaration.
ShadowWarnedAgainstInherited ==
    phase = "done" =>
        \A k \in 1..Len(calls) :
            calls[k].op = "inherit" =>
                \A f \in ShadowingFields(calls[k].self, calls[k].from) :
                    ShadowWarning(f, ctx_scopes[calls[k].from].all_fields[FieldId(f)])

\* A field shadowing a field of its grandparent, which its parent inherited.
GrandparentFieldShadowed ==
    /\ phase = "done"
    /\ \E k \in 1..Len(calls) :
          /\ calls[k].op = "inherit"
          /\ \E f \in ShadowingFields(calls[k].self, calls[k].from) :
                /\ OnceInFlattenedFields(f)
                /\ ctx_scopes[calls[k].from].all_fields[FieldId(f)][1] # calls[k].from
                /\ DiagsAt("shadows parent field", f) # {}

(***************************************************************************)
(* C10. A group field of a declaration of the registry gets exactly one    *)
(* "undeclared group identifier" error over the whole run when its         *)
(* identifier is not in the registry, an "invalid group field identifier"  *)
(* error when the identifier names a declaration that is no Group, and     *)
(* neither error when it names a Group.                                    *)
(***************************************************************************)
GroupFieldDiagnosed ==
    phase = "done" =>
        \A f \in {g \in FieldRefs("group") : IsComposite(g[1])} :
            LET undeclared == Cardinality(DiagsAt("undeclared group identifier", f))
                invalid == Cardinality(DiagsAt("invalid group field identifier", f))
                target == Resolve(FieldDesc(f).ref)
            IN  IF target = NoDecl THEN undeclared = 1 /\ invalid = 0
                ELSE IF file[target].kind = "group" THEN undeclared = 0 /\ invalid = 0
                ELSE undeclared = 0 /\ invalid = 1

\* A group with an undeclared group field, included by two other declarations.
UndeclaredGroupIncludedTwice ==
    /\ phase = "done"
    /\ \E f \in FieldRefs("group") :
          /\ Resolve(FieldDesc(f).ref) = NoDecl
          /\ Cardinality({k \in 1..Len(calls) :
                             calls[k].op = "inline" /\ calls[k].from = f[1]}) >= 2
          /\ Cardinality(DiagsAt("undeclared group identifier", f)) = 1

(***************************************************************************)
(* C11. When the parent identifier of a Packet of the registry resolves to *)
(* a declaration that is no Packet, or that of a Struct to a declaration   *)
(* that is no Struct, the run ends with an "invalid parent identifier"     *)
(* error on the declaration and no inherit call of it; every inherit call  *)
(* joins two declarations of the same kind.                                *)
(***************************************************************************)
MismatchedParent(d) ==
    /\ file[d].kind \in {"packet", "struct"}
    /\ Resolve(file[d].parent_id) # NoDecl
    /\ file[Resolve(file[d].parent_id)].kind # file[d].kind

MismatchedParentRejected ==
    /\ phase = "done" =>
          \A d \in Registered :
              MismatchedParent(d) =>
                  /\ DiagsAt("invalid parent identifier", DeclLoc(d)) # {}
                  /\ InheritCallsOf(d) = {}
    /\ \A k \in 1..Len(calls) :
          calls[k].op = "inherit" => file[calls[k].self].kind = file[calls[k].from].kind

(***************************************************************************)
(* C12. As long as no "recursive declaration" error was reported, every    *)
(* declaration of the topological list comes strictly after each           *)
(* declaration it depends on -- every Group it includes, the parent the    *)
(* walk resolved for it, every Struct one of its typedef fields refers     *)
(* to -- whatever the order in which the registry is visited.              *)
(***************************************************************************)
ListPositions(d) == {k \in 1..Len(list) : list[k] = d}

\* The edges along which bfs calls itself on a Packet, a Struct or a Group.
ListedDependencies == {e \in Dependencies : IsComposite(e[2])}

DependenciesPrecede ==
    DiagIdx("recursive declaration") = {} =>
        \A e \in ListedDependencies :
            \A k \in ListPositions(e[1]) :
                \E j \in ListPositions(e[2]) : j < k

\* A declaration with two dependencies, listed in another order than the file's.
DependentListedLast ==
    /\ phase = "done"
    /\ DiagIdx("recursive declaration") = {}
    /\ Len(list) = 3
    /\ list # <<1, 2, 3>>
    /\ \E d \in Decls :
          /\ Cardinality({e \in ListedDependencies : e[1] = d /\ e[2] # d}) >= 2
          /\ list[3] = d

(***************************************************************************)
(* C13. Two local fields sharing an identifier in a declaration with no    *)
(* parent and no group field produce no diagnostic at all: no diagnostic   *)
(* is labelled with the declaration or with one of its fields, and `named` *)
(* holds one of the two fields under the identifier.                       *)
(***************************************************************************)
LocalDuplicates(d) ==
    {p \in (1..Len(FieldsOf(d))) \X (1..Len(FieldsOf(d))) :
        /\ p[1] < p[2]
        /\ FieldId(<<d, p[1]>>) # None
        /\ FieldId(<<d, p[1]>>) = FieldId(<<d, p[2]>>)}

Standalone(d) ==
    /\ IsComposite(d)
    /\ ParentIdOf(d) = None
    /\ GroupFieldsOf(d) = {}

LocalDuplicateSilent ==
    phase = "done" =>
        \A d \in Registered :
            Standalone(d) =>
                \A p \in LocalDuplicates(d) :
                    /\ \A k \in 1..Len(diagnostics) :
                          /\ diagnostics[k].primary[1] # d
                          /\ diagnostics[k].secondary[1] # d
                    /\ ctx_scopes[d].named[FieldId(<<d, p[1]>>)] \in {<<d, p[1]>>, <<d, p[2]>>}

(***************************************************************************)
(* C14. In every finalized scope, all_constraints has a key for every      *)
(* identifier bound in the scope's `constraints` (absorbed from inlined    *)
(* groups) and for every identifier of the declaration's own constraint    *)
(* list, with or without a successfully resolved parent.                   *)
(***************************************************************************)
ConstraintIds(cs) == {cs[i].id : i \in 1..Len(cs)}

AllConstraintsCoverLocal ==
    \A d \in DOMAIN ctx_scopes :
        /\ DOMAIN ctx_scopes[d].constraints \subseteq DOMAIN ctx_scopes[d].all_constraints
        /\ ConstraintIds(DeclConstraints(d)) \subseteq DOMAIN ctx_scopes[d].all_constraints

(***************************************************************************)
(* C15. The walk is memoized: the field list of a declaration is processed *)
(* at most once and the declaration is appended to the topological list at *)
(* most once; when the walk has ended, every Packet, Struct and Group of   *)
(* the registry was processed exactly once, is listed exactly once and has *)
(* a cached scope, with or without cycles.                                 *)
(***************************************************************************)
ScopeCallsOf(d) == {k \in 1..Len(calls) : calls[k].op = "scope" /\ calls[k].self = d}

ProcessedExactlyOnce ==
    /\ \A d \in Decls :
          /\ Cardinality(ScopeCallsOf(d)) <= 1
          /\ Cardinality(ListPositions(d)) <= 1
          /\ ListPositions(d) # {} => d \in Registered
    /\ phase = "done" =>
          \A d \in Registered :
              /\ Cardinality(ScopeCallsOf(d)) = 1
              /\ Cardinality(ListPositions(d)) = 1
              /\ d \in DOMAIN scopes

\* A cycle was reported and a declaration was reached from two others.
SharedDependencyInCycle ==
    /\ phase = "done"
    /\ DiagIdx("recursive declaration") # {}
    /\ Cardinality(Registered) = 3
    /\ \E d \in Registered :
          /\ Cardinality({e \in ListedDependencies : e[2] = d /\ e[1] # d}) = 2
          /\ d \in DOMAIN scopes
          /\ Cardinality(ListPositions(d)) = 1

(***************************************************************************)
(* C16. A call of inline adds exactly one "inserted group redeclares       *)
(* field" error, labelled with the group field and the field previously    *)
(* named so, for each identifier that is at that time a key of both the    *)
(* group's `named` and the including scope's `named`, and no other         *)
(* diagnostic; after the call the including scope's `constraints` binds    *)
(* every identifier of the inclusion-site constraint list to a constraint  *)
(* of that list, in place of the group's constraint for the identifier.    *)
(***************************************************************************)
InlineCall == phase = "walk" /\ stack # <<>> /\ Top.pc = "inline" /\ ret # NoDecl

AtTypedefField ==
    /\ Top.pc = "fields"
    /\ Top.i <= Len(FieldsOf(Top.decl))
    /\ FieldDesc(<<Top.decl, Top.i>>).kind = "typedef"

TypedefFieldOnlyAppended ==
    [][(phase = "walk" /\ stack # <<>>) =>
        /\ AtTypedefField =>
              LET f == <<Top.decl, Top.i>>
                  added == SubSeq(diagnostics', Len(diagnostics) + 1, Len(diagnostics'))
              IN  /\ stack'[Len(stack)].lscope = [Top.lscope EXCEPT !.fields = Append(@, f)]
                  /\ added = IF Resolve(FieldDesc(f).ref) = NoDecl
                             THEN <<Diag("error", "undeclared typedef identifier",
                                         FieldDesc(f).ref, f, NoLoc)>>
                             ELSE <<>>
                  /\ Len(stack') > Len(stack) <=>
                        /\ Resolve(FieldDesc(f).ref) # NoDecl
                        /\ file[Resolve(FieldDesc(f).ref)].kind = "struct"
        /\ Top.pc = "typedef" =>
              /\ stack'[Len(stack)].lscope = Top.lscope
              /\ diagnostics' = diagnostics
        /\ \A k \in 1..(Len(stack) - 1) : stack'[k] = stack[k]
    ]_vars

\* A declaration whose only field has a Struct type with fields of its own.
StructTypedFieldKeptAlone ==
    \E f \in FieldRefs("typedef") :
        LET target == Resolve(FieldDesc(f).ref)
        IN  /\ target # NoDecl
            /\ target # f[1]
            /\ file[target].kind = "struct"
            /\ {f[1], target} \subseteq DOMAIN ctx_scopes
            /\ ctx_scopes[target].named # EmptyMap
            /\ ctx_scopes[f[1]].fields = <<f>>
            /\ DOMAIN ctx_scopes[f[1]].named = {FieldId(f)}

(***************************************************************************)
(* C18. inherit is called at most once on any scope and its assertion      *)
(* holds at each call: a scope that has not inherited has an empty         *)
(* all_constraints, so Scope::new never panics, whatever the graph of      *)
(* references.                                                             *)
(***************************************************************************)
InheritAssertionHolds ==
    /\ phase # "panic"
    /\ result.kind # "Panic"
    /\ \A d \in Decls : Cardinality(InheritCallsOf(d)) <= 1
    /\ \A k \in 1..Len(stack) :
          stack[k].pc # "finish" => stack[k].lscope.all_constraints = EmptyMap

\* A Packet inherited from a Group parent and its all_constraints was filled.
InheritedFromGroupParent ==
    /\ phase = "done"
    /\ \E k \in 1..Len(calls) :
          /\ calls[k].op = "inherit"
          /\ file[calls[k].from].kind = "group"
          /\ ctx_scopes[calls[k].self].all_constraints # EmptyMap

(***************************************************************************)
(* C19. The outcome does not depend on the order in which the registry is  *)
(* visited: in every run that reports no "recursive declaration" error,    *)
(* the cached scope of each declaration and the multiset of diagnostics    *)
(* are the values of a function of the file alone, hence the same for      *)
(* every visiting order.                                                   *)
(***************************************************************************)
\* The registry and the diagnostics of the build, declaration by declaration.
RECURSIVE RegistryOf(_, _, _)
RegistryOf(k, m, diags) ==
    IF k > Len(file) THEN <<m, diags>>
    ELSE IF file[k].id = None THEN RegistryOf(k + 1, m, diags)
    ELSE RegistryOf(k + 1, RegistryInsert(m, file[k].id, k),
                    RegisterDiags(diags, m, file[k].id, k))

\* <<scope, diagnostics>> of one activation of bfs on d, every declaration it
\* refers to being resolved by the same function.
RECURSIVE ResolvedFrom(_, _)
RECURSIVE ResolvedFields(_, _, _, _)
ResolvedFields(d, i, acc, fuel) ==
    IF i > Len(FieldsOf(d)) THEN acc
    ELSE LET f == <<d, i>>
             desc == FieldDesc(f)
             target == Resolve(desc.ref)
             error(msg) == Diag("error", msg, desc.ref, f, NoLoc)
             group == ResolvedFrom(target, fuel - 1)[1]
         IN  ResolvedFields(d, i + 1,
                 IF desc.kind = "group"
                 THEN IF target = NoDecl
                      THEN <<acc[1], Append(acc[2], error("undeclared group identifier"))>>
                      ELSE IF file[target].kind # "group"
                      THEN <<acc[1], Append(acc[2], error("invalid group field identifier"))>>
                      ELSE IF fuel = 0 THEN acc
                      ELSE <<inline(acc[1], group, FieldConstraints(f)),
                             acc[2] \o InlineDiags(acc[1], group, f,
                                 CHOOSE o \in IterOrders(InlineCollisions(acc[1], group)) : TRUE)>>
                 ELSE <<[acc[1] EXCEPT !.fields = Append(@, f)],
                        IF desc.kind = "typedef" /\ target = NoDecl
                        THEN Append(acc[2], error("undeclared typedef identifier"))
                        ELSE acc[2]>>,
                 fuel)

ResolvedFrom(d, fuel) ==
    LET body == ResolvedFields(d, 1, <<decl_scope(d), <<>>>>, fuel)
        parent_id == ParentIdOf(d)
        parent == IF parent_id = None THEN NoDecl ELSE Resolve(parent_id)
        error(msg) == Diag("error", msg, parent_id, DeclLoc(d), NoLoc)
        merged ==
            IF parent = NoDecl
            THEN IF parent_id = None THEN body
                 ELSE <<body[1], Append(body[2], error("undeclared parent identifier"))>>
            ELSE IF {file[d].kind, file[parent].kind} = {"packet", "struct"}
            THEN <<body[1], Append(body[2], error("invalid parent identifier"))>>
            ELSE IF IsComposite(parent) /\ fuel > 0
            THEN <<inherit(body[1], ResolvedFrom(parent, fuel - 1)[1], DeclConstraints(d)),
                   body[2]>>
            ELSE body
        fin == finalize(merged[1])
    IN  <<[merged[1] EXCEPT !.all_fields = fin[1]], merged[2] \o fin[2]>>

RECURSIVE ResolvedDiags(_)
ResolvedDiags(d) ==
    IF d > Len(file) THEN <<>>
    ELSE (IF d \in Registered THEN ResolvedFrom(d, Len(file))[2] ELSE <<>>)
         \o ResolvedDiags(d + 1)

Count(seq, x) == Cardinality({k \in 1..Len(seq) : seq[k] = x})

SameMultiset(s, t) ==
    /\ Len(s) = Len(t)
    /\ \A k \in 1..Len(s) : Count(s, s[k]) = Count(t, s[k])

VisitingOrderIrrelevant ==
    (phase = "done" /\ DiagIdx("recursive declaration") = {}) =>
        /\ typedef = RegistryOf(1, EmptyMap, <<>>)[1]
        /\ DOMAIN scopes = Registered
        /\ \A d \in Registered : scopes[d] = ResolvedFrom(d, Len(file))[1]
        /\ SameMultiset(diagnostics,
                        RegistryOf(1, EmptyMap, <<>>)[2] \o ResolvedDiags(1))

\* The walk started with the last declaration of the file, which depends on
\* another one, and ended with diagnostics but without a cycle.
LastDeclarationVisitedFirst ==
    /\ phase = "done"
    /\ DiagIdx("recursive declaration") = {}
    /\ diagnostics # <<>>
    /\ Cardinality(Registered) = 3
    /\ calls[1].self = Len(file)
    /\ \E e \in ListedDependencies : e[1] = Len(file) /\ e[2] # Len(file)

(***************************************************************************)
(* C20. Marks only move forward, from unvisited to Temporary to Permanent; *)
(* a declaration has a cached scope exactly when it is Permanent; only     *)
(* Packets, Structs and Groups are ever marked; no declaration is          *)
(* Temporary when the walk has ended, and every declaration marked         *)
(* Temporary is eventually marked Permanent.                               *)
(***************************************************************************)
MarkStep(before, after) ==
    \/ before = after
    \/ before = "Unvisited" /\ after = "Temporary"
    \/ before = "Temporary" /\ after = "Permanent"

MarksConsistent ==
    /\ \A d \in Decls :
          /\ d \in DOMAIN ctx_scopes <=> visited[d] = "Permanent"
          /\ visited[d] # "Unvisited" => IsComposite(d)
    /\ phase = "done" => \A d \in Decls : visited[d] # "Temporary"

MarksMoveForward ==
    /\ [][\A d \in Decls : MarkStep(visited[d], visited'[d])]_vars
    /\ []MarksConsistent
    /\ \A d \in 1..MaxDecls :
          (d \in Decls /\ visited[d] = "Temporary") ~> (visited[d] = "Permanent")

\* Two groups including each other and an Enum: the cycle was reported, both
\* groups ended Permanent with a cached scope, the Enum was never marked.
CycleMembersPermanent ==
    /\ phase = "done"
    /\ DiagIdx("recursive declaration") # {}
    /\ \E d \in MapValues(typedef) : ~IsComposite(d) /\ visited[d] = "Unvisited"
    /\ Cardinality({d \in Decls : visited[d] = "Permanent" /\ d \in DOMAIN scopes}) = 2

====
